---- MODULE Spec2Model ----
(***************************************************************************)
(* Pocket Watch (src/src/components/PocketWatchApp.tsx): bills, one pay    *)
(* schedule, and the values derived from them on every recomputation: the  *)
(* current pay period, the bills due in it, the money left over and the    *)
(* monthly summary.                                                        *)
(*                                                                         *)
(* A Date is modelled by its local calendar day, as the number of days     *)
(* since 1970-01-01.  Every Date the component computes with has passed    *)
(* through startOfDay, so the day number is all there is to it.  Months    *)
(* are numbered 0..11 as in JavaScript.                                    *)
(***************************************************************************)
EXTENDS Integers, Sequences, FiniteSets, TLC

(***************************************************************************)
(* Calendar arithmetic: the JavaScript Date and date-fns functions the     *)
(* component imports.                                                      *)
(***************************************************************************)

\* Day number of the proleptic Gregorian date y-m-d, m in 1..12: the year
\* is counted from 1 March, in eras of 400 years.
DaysFromMarchYear(yy, mp, d) ==
  (yy \div 400) * 146097
  + (yy % 400) * 365 + (yy % 400) \div 4 - (yy % 400) \div 100
  + (153 * mp + 2) \div 5 + d - 1
  - 719468

DaysFromCivil(y, m, d) ==
  IF m <= 2 THEN DaysFromMarchYear(y - 1, m + 9, d) ELSE DaysFromMarchYear(y, m - 3, d)

\* The calendar date of a day number: [year, month (0..11), date (1..31)],
\* from the 400-year era, the day and the year of the era, and the day and
\* the month of the year that starts on 1 March.
CivilFromMonth(y, mp, doy) ==
  [year |-> IF mp < 10 THEN y ELSE y + 1,
   month |-> IF mp < 10 THEN mp + 2 ELSE mp - 10,
   date |-> doy - (153 * mp + 2) \div 5 + 1]

CivilFromDayOfYear(y, doy) == CivilFromMonth(y, (5 * doy + 2) \div 153, doy)

CivilFromYearOfEra(era, doe, yoe) ==
  CivilFromDayOfYear(yoe + era * 400, doe - (365 * yoe + yoe \div 4 - yoe \div 100))

CivilFromDayOfEra(era, doe) ==
  CivilFromYearOfEra(era, doe,
    (doe - doe \div 1460 + doe \div 36524 - doe \div 146096) \div 365)

CivilFromDays(z) == CivilFromDayOfEra((z + 719468) \div 146097, (z + 719468) % 146097)

getFullYear(z) == CivilFromDays(z).year
getMonth(z) == CivilFromDays(z).month
getDate(z) == CivilFromDays(z).date

\* new Date(year, monthIndex, day): a month index outside 0..11 and a day
\* outside the month roll over into the neighbouring months.
NewDate(y, m, d) == DaysFromCivil(y + (m \div 12), (m % 12) + 1, 1) + (d - 1)

\* The dates below are written year, month 1..12, day.
Ymd(y, m, d) == NewDate(y, m - 1, d)

startOfDay(z) == z
addDays(z, n) == z + n
addWeeks(z, n) == addDays(z, 7 * n)
subWeeks(z, n) == addWeeks(z, 0 - n)

\* date-fns addMonths: the same day of the month n months on, or the last
\* day of that month when it is shorter.
ClampToMonth(endOfDesiredMonth, dayOfMonth) ==
  IF dayOfMonth >= getDate(endOfDesiredMonth)
  THEN endOfDesiredMonth
  ELSE NewDate(getFullYear(endOfDesiredMonth), getMonth(endOfDesiredMonth), dayOfMonth)

AddMonthsCivil(c, n) == ClampToMonth(NewDate(c.year, c.month + n + 1, 0), c.date)

addMonths(z, n) == AddMonthsCivil(CivilFromDays(z), n)

subMonths(z, n) == addMonths(z, 0 - n)

startOfMonth(z) == NewDate(getFullYear(z), getMonth(z), 1)
endOfMonth(z) == NewDate(getFullYear(z), getMonth(z) + 1, 0)

isBefore(a, b) == a < b
isAfter(a, b) == a > b
isEqual(a, b) == a = b

\* new Date("1900-01-01"), the floor of the backward walks.
Floor1900 == DaysFromCivil(1900, 1, 1)

(***************************************************************************)
(* Occurrence advancer.                                                    *)
(***************************************************************************)

BillFrequency == {"one-time", "weekly", "bi-weekly", "tri-weekly", "monthly"}
PayFrequency == {"weekly", "bi-weekly", "monthly"}
RecurringFrequency == BillFrequency \ {"one-time"}

\* A faulty variant: a frequency that is not recognised advances by a day.
calculateNextOccurrenceDaily(currentDate, frequency) ==
  CASE frequency = "weekly" -> addWeeks(currentDate, 1)
    [] frequency = "bi-weekly" -> addWeeks(currentDate, 2)
    [] frequency = "tri-weekly" -> addWeeks(currentDate, 3)
    [] frequency = "monthly" -> addMonths(currentDate, 1)
    [] OTHER -> addDays(currentDate, 1)

calculateNextOccurrence(currentDate, frequency) ==
  CASE frequency = "weekly" -> addWeeks(currentDate, 1)
    [] frequency = "bi-weekly" -> addWeeks(currentDate, 2)
    [] frequency = "tri-weekly" -> addWeeks(currentDate, 3)
    [] frequency = "monthly" -> addMonths(currentDate, 1)
    [] OTHER -> currentDate

\* A faulty variant: every 3 weeks steps back 2 weeks only.
calculatePreviousOccurrenceShort(currentDate, frequency) ==
  CASE frequency = "weekly" -> subWeeks(currentDate, 1)
    [] frequency = "bi-weekly" -> subWeeks(currentDate, 2)
    [] frequency = "tri-weekly" -> subWeeks(currentDate, 2)
    [] frequency = "monthly" -> subMonths(currentDate, 1)
    [] OTHER -> currentDate

\* A faulty variant: a monthly date has itself for previous occurrence.
calculatePreviousOccurrenceStuck(currentDate, frequency) ==
  CASE frequency = "weekly" -> subWeeks(currentDate, 1)
    [] frequency = "bi-weekly" -> subWeeks(currentDate, 2)
    [] frequency = "tri-weekly" -> subWeeks(currentDate, 3)
    [] OTHER -> currentDate

calculatePreviousOccurrence(currentDate, frequency) ==
  CASE frequency = "weekly" -> subWeeks(currentDate, 1)
    [] frequency = "bi-weekly" -> subWeeks(currentDate, 2)
    [] frequency = "tri-weekly" -> subWeeks(currentDate, 3)
    [] frequency = "monthly" -> subMonths(currentDate, 1)
    [] OTHER -> currentDate

(***************************************************************************)
(* Anchor resolver: getActualNextDueDate.                                  *)
(***************************************************************************)

\* The loops are written as recursive functions of the loop variable.

\* while (isBefore(d, limit)) { advance; break if the date did not move }
RollForward(d, frequency, limit) ==
  LET roll[x \in Int] ==
        IF isBefore(x, limit)
        THEN LET advancedDate == startOfDay(calculateNextOccurrence(x, frequency))
             IN  IF isEqual(advancedDate, x) THEN x ELSE roll[advancedDate]
        ELSE x
  IN  roll[d]

\* The while(true) loop of the existing-recurring branch, anchor not before
\* today: the value of actualNextDueDate when the loop is left.
ResolverWalkBack(d, frequency, todayStart) ==
  LET walk[x \in Int] ==
        LET prevDate == startOfDay(calculatePreviousOccurrence(x, frequency))
        IN  IF isBefore(prevDate, todayStart) /\ ~isEqual(prevDate, todayStart)
               /\ ~isEqual(x, todayStart)
            THEN IF isBefore(x, todayStart)
                 THEN startOfDay(calculateNextOccurrence(prevDate, frequency))
                 ELSE x
            ELSE IF isEqual(prevDate, x) THEN x
            ELSE IF isBefore(prevDate, Floor1900) THEN prevDate
            ELSE walk[prevDate]
  IN  walk[d]

\* A faulty variant: the flag is not looked at, every recurring bill is
\* resolved as an existing one.
getActualNextDueDateIgnoringFlag(bill, todayDate) ==
  IF bill.frequency = "one-time" THEN bill.nextDueDate
  ELSE IF isBefore(startOfDay(bill.nextDueDate), startOfDay(todayDate))
       THEN RollForward(startOfDay(bill.nextDueDate), bill.frequency, startOfDay(todayDate))
       ELSE ResolverWalkBack(startOfDay(bill.nextDueDate), bill.frequency,
                             startOfDay(todayDate))

getActualNextDueDate(bill, todayDate) ==
  IF bill.frequency = "one-time" THEN bill.nextDueDate
  ELSE
    LET anchor == startOfDay(bill.nextDueDate)
        todayStart == startOfDay(todayDate)
    IN  IF bill.isExistingRecurring
        THEN IF isBefore(anchor, todayStart)
             THEN RollForward(anchor, bill.frequency, todayStart)
             ELSE LET walked == ResolverWalkBack(anchor, bill.frequency, todayStart)
                  IN  IF isBefore(walked, todayStart)
                      THEN startOfDay(calculateNextOccurrence(walked, bill.frequency))
                      ELSE walked
        ELSE RollForward(anchor, bill.frequency, todayStart)

(***************************************************************************)
(* Pay-period locator: the first part of the recompute effect.             *)
(***************************************************************************)

\* An absent value (null, undefined) is the empty sequence, a present one v
\* the one-element sequence <<v>>.
Null == <<>>
Some(v) == <<v>>

\* date-fns isWithinInterval, both ends included.
isWithinInterval(d, start, end) == start <= d /\ d <= end

\* A faulty variant: a bi-weekly schedule steps one week.
PayPeriodStepOneWeek(d, payFrequency) ==
  CASE payFrequency = "weekly" -> startOfDay(addWeeks(d, 1))
    [] payFrequency = "bi-weekly" -> startOfDay(addWeeks(d, 1))
    [] payFrequency = "monthly" -> startOfDay(addMonths(d, 1))

\* The payday that follows payday d.
PayPeriodStep(d, payFrequency) ==
  CASE payFrequency = "weekly" -> startOfDay(addWeeks(d, 1))
    [] payFrequency = "bi-weekly" -> startOfDay(addWeeks(d, 2))
    [] payFrequency = "monthly" -> startOfDay(addMonths(d, 1))

\* while (isBefore(periodEndDate, today)) { start = end; end = step(start) }
RollPayPeriod(periodStartDate, payFrequency, today) ==
  LET roll[start \in Int] ==
        LET periodEndDate == PayPeriodStep(start, payFrequency)
        IN  IF isBefore(periodEndDate, today)
            THEN roll[periodEndDate]
            ELSE [start |-> start, end |-> periodEndDate]
  IN  roll[periodStartDate]

\* The monthly case first puts the anchor's day of the month into today's
\* month, and steps a month back when that is after today.
MonthlyPeriodStart(resolvedLastPayday, today) ==
  LET aligned == startOfDay(NewDate(getFullYear(today), getMonth(today),
                                    getDate(resolvedLastPayday)))
  IN  IF isAfter(aligned, today) THEN subMonths(aligned, 1) ELSE aligned

LocatePayPeriod(config, today) ==
  LET resolvedLastPayday == startOfDay(config.lastPayday)
  IN  IF config.payFrequency = "monthly"
      THEN RollPayPeriod(MonthlyPeriodStart(resolvedLastPayday, today), "monthly", today)
      ELSE RollPayPeriod(resolvedLastPayday, config.payFrequency, today)

(***************************************************************************)
(* Interval aggregation: the bills of the pay period and of the month.     *)
(***************************************************************************)

\* A faulty variant: the walk goes back one occurrence at most.
WindowWalkBackOnce(d, frequency, windowStart) ==
  IF isAfter(d, windowStart) \/ isEqual(d, windowStart)
  THEN LET prevDate == startOfDay(calculatePreviousOccurrence(d, frequency))
       IN  IF isBefore(prevDate, windowStart) THEN d ELSE prevDate
  ELSE d

\* The backward walk of an existing recurring bill whose anchor is not
\* before the window start: the date on which the loop is left.
WindowWalkBack(d, frequency, windowStart) ==
  LET walk[x \in Int] ==
        IF isAfter(x, windowStart) \/ isEqual(x, windowStart)
        THEN LET prevDate == startOfDay(calculatePreviousOccurrence(x, frequency))
             IN  IF isBefore(prevDate, windowStart) THEN x
                 ELSE IF isEqual(prevDate, x) THEN x
                 ELSE IF isBefore(prevDate, Floor1900) THEN prevDate
                 ELSE walk[prevDate]
        ELSE x
  IN  walk[d]

\* The date from which a recurring bill's sweep of a window starts.
AlignToWindow(bill, windowStart) ==
  LET billAnchorDate == startOfDay(bill.nextDueDate)
  IN  IF bill.isExistingRecurring
      THEN IF isBefore(billAnchorDate, windowStart)
           THEN RollForward(billAnchorDate, bill.frequency, windowStart)
           ELSE LET walked == WindowWalkBack(billAnchorDate, bill.frequency, windowStart)
                IN  IF isBefore(walked, windowStart)
                    THEN startOfDay(calculateNextOccurrence(walked, bill.frequency))
                    ELSE walked
      ELSE IF isBefore(billAnchorDate, windowStart)
           THEN RollForward(billAnchorDate, bill.frequency, windowStart)
           ELSE billAnchorDate

\* A faulty variant: the period end itself counts as inside the period.
PeriodLastDayInclusive(periodEndDate) == periodEndDate

\* The last day a pay-period occurrence may fall on.
PeriodLastDay(periodEndDate) == addDays(periodEndDate, 0 - 1)

\* The occurrence dates the pay-period sweep pushes, in the order pushed.
SweepPayPeriod(d, frequency, periodStartDate, periodEndDate) ==
  LET sweep[x \in Int] ==
        IF isBefore(x, periodEndDate)
        THEN LET hit == IF isWithinInterval(x, periodStartDate,
                                            PeriodLastDay(periodEndDate))
                        THEN <<x>> ELSE <<>>
                 nextCalculatedDueDate ==
                   startOfDay(calculateNextOccurrence(x, frequency))
             IN  IF isEqual(nextCalculatedDueDate, x) THEN hit
                 ELSE hit \o sweep[nextCalculatedDueDate]
        ELSE <<>>
  IN  sweep[d]

\* A faulty variant: a one-time bill is only tested against the period end.
BillDatesInPeriodNoStart(bill, periodStartDate, periodEndDate) ==
  IF bill.frequency = "one-time"
  THEN IF isBefore(startOfDay(bill.nextDueDate), periodEndDate)
       THEN <<startOfDay(bill.nextDueDate)>> ELSE <<>>
  ELSE SweepPayPeriod(AlignToWindow(bill, periodStartDate), bill.frequency,
                      periodStartDate, periodEndDate)

\* The occurrence dates of one bill in the pay period.
BillDatesInPeriod(bill, periodStartDate, periodEndDate) ==
  LET billAnchorDate == startOfDay(bill.nextDueDate)
  IN  IF bill.frequency = "one-time"
      THEN IF isWithinInterval(billAnchorDate, periodStartDate, PeriodLastDay(periodEndDate))
           THEN <<billAnchorDate>> ELSE <<>>
      ELSE SweepPayPeriod(AlignToWindow(bill, periodStartDate), bill.frequency,
                          periodStartDate, periodEndDate)

\* dueBillsInPeriod.push({ ...bill, nextDueDate: d }) for each date d.
BillCopies(bill, dates) == [i \in 1..Len(dates) |-> [bill EXCEPT !.nextDueDate = dates[i]]]

\* dueBillsInPeriod before it is sorted: a copy of the bill per occurrence.
RECURSIVE DueBillsInPeriod(_, _, _)
DueBillsInPeriod(bs, periodStartDate, periodEndDate) ==
  IF bs = <<>> THEN <<>>
  ELSE BillCopies(Head(bs), BillDatesInPeriod(Head(bs), periodStartDate, periodEndDate))
       \o DueBillsInPeriod(Tail(bs), periodStartDate, periodEndDate)

RECURSIVE SumAmounts(_)
SumAmounts(bs) == IF bs = <<>> THEN 0 ELSE Head(bs).amount + SumAmounts(Tail(bs))

\* Array.prototype.sort with the comparator (a, b) => key(a) - key(b), on a
\* sequence of [key, item] records: ascending by key, and stable.
\* A faulty variant: an item is put before the items of the same key.
RECURSIVE InsertByKeyUnstable(_, _)
InsertByKeyUnstable(sorted, x) ==
  IF sorted = <<>> THEN <<x>>
  ELSE IF sorted[Len(sorted)].key < x.key THEN Append(sorted, x)
  ELSE Append(InsertByKeyUnstable(SubSeq(sorted, 1, Len(sorted) - 1), x),
              sorted[Len(sorted)])

RECURSIVE InsertByKey(_, _)
InsertByKey(sorted, x) ==
  IF sorted = <<>> THEN <<x>>
  ELSE IF sorted[Len(sorted)].key <= x.key THEN Append(sorted, x)
  ELSE Append(InsertByKey(SubSeq(sorted, 1, Len(sorted) - 1), x),
              sorted[Len(sorted)])

RECURSIVE SortByKey(_)
SortByKey(s) ==
  IF s = <<>> THEN <<>>
  ELSE InsertByKey(SortByKey(SubSeq(s, 1, Len(s) - 1)), s[Len(s)])

Items(keyed) == [i \in 1..Len(keyed) |-> keyed[i].item]

\* dueBillsInPeriod.sort((a, b) => a.nextDueDate.getTime() - b.nextDueDate.getTime())
SortByDueDate(bs) ==
  Items(SortByKey([i \in 1..Len(bs) |-> [key |-> bs[i].nextDueDate, item |-> bs[i]]]))

\* bills.sort by getActualNextDueDate(bill, new Date()), as saveBillData does.
SortByActualDueDate(bs, now) ==
  Items(SortByKey([i \in 1..Len(bs) |->
                    [key |-> getActualNextDueDate(bs[i], now), item |-> bs[i]]]))

(***************************************************************************)
(* Monthly summary: income and bills of the current calendar month.        *)
(***************************************************************************)

\* while (isAfter(tempPayDate, currentMonthStart)) tempPayDate = subMonths(tempPayDate, 1)
MonthsBackTo(tempPayDate, currentMonthStart) ==
  LET back[x \in Int] ==
        IF isAfter(x, currentMonthStart) THEN back[subMonths(x, 1)] ELSE x
  IN  back[tempPayDate]

\* The search for the anchor's day of the month, from the month start on.
SeekPayDayOfMonth(tempPayDate, currentMonthStart, payDayOfMonth) ==
  LET seek[x \in Int] ==
        IF isBefore(x, currentMonthStart) \/ getDate(x) # payDayOfMonth
        THEN LET stepped == addMonths(x, 1)
             IN  seek[startOfDay(NewDate(getFullYear(stepped), getMonth(stepped),
                                         payDayOfMonth))]
        ELSE x
  IN  seek[tempPayDate]

\* A faulty variant: a pay date after the month start is not walked back.
WeeksBackToNever(currentPayDate, payIntervalWeeks, currentMonthStart) == currentPayDate

WeeksBackTo(currentPayDate, payIntervalWeeks, currentMonthStart) ==
  LET back[x \in Int] ==
        IF isAfter(x, currentMonthStart)
        THEN back[subWeeks(x, payIntervalWeeks)] ELSE x
  IN  back[currentPayDate]

WeeksForwardTo(currentPayDate, payIntervalWeeks, currentMonthStart) ==
  LET forward[x \in Int] ==
        IF isBefore(x, currentMonthStart)
        THEN forward[addWeeks(x, payIntervalWeeks)] ELSE x
  IN  forward[currentPayDate]

\* The number of paydays counted while the pay date stays within the month.
CountPaydays(currentPayDate, payIntervalWeeks, currentMonthStart, currentMonthEnd) ==
  LET count[x \in Int] ==
        IF isWithinInterval(x, currentMonthStart, currentMonthEnd)
        THEN 1 + count[addWeeks(x, payIntervalWeeks)]
        ELSE 0
  IN  count[currentPayDate]

MonthlyIncome(config, currentMonthStart, currentMonthEnd) ==
  IF config.payFrequency = "monthly"
  THEN LET back == MonthsBackTo(startOfDay(config.lastPayday), currentMonthStart)
           tempPayDate == SeekPayDayOfMonth(back, currentMonthStart,
                                            getDate(config.lastPayday))
       IN  IF isWithinInterval(tempPayDate, currentMonthStart, currentMonthEnd)
           THEN config.payAmount ELSE 0
  ELSE LET payIntervalWeeks == IF config.payFrequency = "weekly" THEN 1 ELSE 2
           back == WeeksBackTo(startOfDay(config.lastPayday), payIntervalWeeks,
                               currentMonthStart)
           first == WeeksForwardTo(back, payIntervalWeeks, currentMonthStart)
       IN  config.payAmount
             * CountPaydays(first, payIntervalWeeks, currentMonthStart, currentMonthEnd)

\* A faulty variant: the sweep stops before the last day of the month.
SweepMonthExclusive(d, frequency, currentMonthStart, currentMonthEnd) ==
  LET sweep[x \in Int] ==
        IF isBefore(x, currentMonthEnd)
        THEN LET hit == IF isWithinInterval(x, currentMonthStart, currentMonthEnd)
                        THEN 1 ELSE 0
                 nextCalculatedDueDate ==
                   startOfDay(calculateNextOccurrence(x, frequency))
             IN  IF frequency # "one-time" /\ isEqual(nextCalculatedDueDate, x) THEN hit
                 ELSE hit + sweep[nextCalculatedDueDate]
        ELSE 0
  IN  sweep[d]

\* The number of occurrences the monthly sweep of a recurring bill counts.
SweepMonth(d, frequency, currentMonthStart, currentMonthEnd) ==
  LET sweep[x \in Int] ==
        IF ~isAfter(x, currentMonthEnd)
        THEN LET hit == IF isWithinInterval(x, currentMonthStart, currentMonthEnd)
                        THEN 1 ELSE 0
                 nextCalculatedDueDate ==
                   startOfDay(calculateNextOccurrence(x, frequency))
             IN  IF frequency # "one-time" /\ isEqual(nextCalculatedDueDate, x) THEN hit
                 ELSE hit + sweep[nextCalculatedDueDate]
        ELSE 0
  IN  sweep[d]

\* What one bill adds to calculatedMonthlyBills.  The alignment at lines
\* 334-363 is the text of lines 244-273 with the month start for the period
\* start.
BillInMonth(bill, currentMonthStart, currentMonthEnd) ==
  LET billAnchorDate == startOfDay(bill.nextDueDate)
  IN  IF bill.frequency = "one-time"
      THEN IF isWithinInterval(billAnchorDate, currentMonthStart, currentMonthEnd)
           THEN bill.amount ELSE 0
      ELSE bill.amount * SweepMonth(AlignToWindow(bill, currentMonthStart),
                                    bill.frequency, currentMonthStart, currentMonthEnd)

RECURSIVE MonthlyBills(_, _, _)
MonthlyBills(bs, currentMonthStart, currentMonthEnd) ==
  IF bs = <<>> THEN 0
  ELSE BillInMonth(Head(bs), currentMonthStart, currentMonthEnd)
       + MonthlyBills(Tail(bs), currentMonthStart, currentMonthEnd)

(***************************************************************************)
(* The recompute effect: every derived value, from the bills, the pay      *)
(* schedule and today's date.                                              *)
(***************************************************************************)

Derived(cfg, period, dueBillsInPeriod, calculatedMonthlyIncome, calculatedMonthlyBills) ==
  [leftoverMoney |-> Some(cfg.payAmount - SumAmounts(dueBillsInPeriod)),
   currentPayPeriodDates |-> Some(period),
   monthlySummary |-> Some([income |-> calculatedMonthlyIncome,
                            bills |-> calculatedMonthlyBills,
                            net |-> calculatedMonthlyIncome - calculatedMonthlyBills]),
   billsDueThisPayPeriod |-> SortByDueDate(dueBillsInPeriod)]

RecomputeIn(bs, cfg, period, currentMonthStart, currentMonthEnd) ==
  Derived(cfg, period, DueBillsInPeriod(bs, period.start, period.end),
          MonthlyIncome(cfg, currentMonthStart, currentMonthEnd),
          MonthlyBills(bs, currentMonthStart, currentMonthEnd))

\* A faulty variant: without a schedule the due-bill list is not emptied
\* but holds the bills.
RecomputeKeepingList(bs, config, todayDate) ==
  IF config = Null
  THEN [leftoverMoney |-> Null, currentPayPeriodDates |-> Null,
        monthlySummary |-> Null, billsDueThisPayPeriod |-> bs]
  ELSE RecomputeIn(bs, config[1], LocatePayPeriod(config[1], startOfDay(todayDate)),
                   startOfDay(startOfMonth(startOfDay(todayDate))),
                   startOfDay(endOfMonth(startOfDay(todayDate))))

\* A schedule held in the state always has its lastPayday: the mount effect
\* and handleSetPayPeriod see to it, so the guard is one on the schedule.
Recompute(bs, config, todayDate) ==
  IF config = Null
  THEN [leftoverMoney |-> Null, currentPayPeriodDates |-> Null,
        monthlySummary |-> Null, billsDueThisPayPeriod |-> <<>>]
  ELSE RecomputeIn(bs, config[1], LocatePayPeriod(config[1], startOfDay(todayDate)),
                   startOfDay(startOfMonth(startOfDay(todayDate))),
                   startOfDay(endOfMonth(startOfDay(todayDate))))

(***************************************************************************)
(* State.                                                                  *)
(***************************************************************************)

VARIABLES
  today,                  \* the local calendar day new Date() falls on
  clock,                  \* Date.now() at the latest creation of a bill
  storedBills,            \* localStorage item pocketWatchBills
  storedConfig,           \* localStorage item pocketWatchPayPeriodConfig
  isLoading,
  bills,
  payPeriodConfig,
  leftoverMoney,
  currentPayPeriodDates,
  monthlySummary,
  billsDueThisPayPeriod,
  editingBill,
  isBillFormDialogOpen,
  fnPc,                   \* the calls of the pure functions made so far
  fnBill,                 \* the bill they are called with
  fnToday,                \* the reference date they are called with
  fnOut                   \* what they returned

appVars == <<today, clock, storedBills, storedConfig, isLoading, bills, payPeriodConfig,
             leftoverMoney, currentPayPeriodDates, monthlySummary,
             billsDueThisPayPeriod, editingBill, isBillFormDialogOpen>>
fnVars == <<fnPc, fnBill, fnToday, fnOut>>
vars == <<appVars, fnVars>>

(***************************************************************************)
(* Bounds and input sets.                                                  *)
(***************************************************************************)

\* Bills held at once, and bills ever created, under Spec.
MaxBills == 2
MaxClock == 3
\* Days that pass under Spec.
MaxDaysElapsed == 1
\* The reference days of SpecLoaded are FirstDay .. FirstDay + MaxDayOffset,
\* and those of SpecFn FnFirstDay .. FnFirstDay + MaxFnDayOffset.
MaxDayOffset == 41
MaxFnDayOffset == 64

FirstDay == Ymd(2024, 2, 20)
FnFirstDay == Ymd(2024, 1, 29)
SpecDay == Ymd(2024, 2, 1)

\* Days of the scenarios the specification names.
ScenarioDays == {Ymd(2024, 2, 1), Ymd(2024, 6, 15)}

LoadedDays == (FirstDay .. (FirstDay + MaxDayOffset)) \cup ScenarioDays
FnDays == FnFirstDay .. (FnFirstDay + MaxFnDayOffset)

Amounts == {50}
PayAmounts == {1000}

\* Anchors of the stored pay schedule and of the stored bill under SpecLoaded.
PayAnchors == {Ymd(2024, 1, 1), Ymd(2024, 1, 5), Ymd(2024, 1, 29), Ymd(2024, 1, 30),
               Ymd(2024, 1, 31), Ymd(2024, 3, 15)}
BillAnchors == {Ymd(2023, 12, 25), Ymd(2024, 1, 1), Ymd(2024, 1, 31), Ymd(2024, 2, 29),
                Ymd(2024, 3, 1), Ymd(2024, 3, 15), Ymd(2024, 3, 30), Ymd(2024, 3, 31),
                Ymd(2024, 5, 31), Ymd(2024, 6, 10)}

\* What the forms submit under Spec.  SpecDay lies in the weekly pay period
\* [2024-01-26, 2024-02-02) of the first schedule.
PayForms == {[payAmount |-> 1000, lastPayday |-> Some(Ymd(2024, 1, 5)), payFrequency |-> "weekly"],
             [payAmount |-> 1000, lastPayday |-> Some(Ymd(2024, 1, 5)), payFrequency |-> "bi-weekly"],
             [payAmount |-> 1000, lastPayday |-> Some(Ymd(2024, 1, 31)), payFrequency |-> "monthly"],
             [payAmount |-> 1000, lastPayday |-> Null, payFrequency |-> "monthly"]}
BillForm(amount, nextDueDate, frequency, flag) ==
  [amount |-> amount, nextDueDate |-> nextDueDate, frequency |-> frequency,
   isExistingRecurring |-> flag]
BillForms == {BillForm(50, Some(Ymd(2024, 1, 26)), "one-time", TRUE),
              BillForm(20, Some(Ymd(2024, 2, 2)), "one-time", FALSE),
              BillForm(50, Some(Ymd(2024, 1, 26)), "weekly", TRUE),
              BillForm(20, Some(Ymd(2024, 1, 26)), "bi-weekly", FALSE),
              BillForm(50, Some(Ymd(2024, 2, 2)), "tri-weekly", TRUE),
              BillForm(20, Some(Ymd(2024, 2, 2)), "monthly", FALSE),
              BillForm(50, Null, "monthly", FALSE)}

\* A stored bill may lack the flag (written before the flag existed).
StoredFlags == {Null, Some(TRUE), Some(FALSE)}
\* JSON.parse checks nothing: a stored bill may carry a frequency that is
\* none of BillFrequency.
StoredFrequency == BillFrequency \cup {"quarterly"}
StoredBillsOf(anchors) ==
  [id : {1}, amount : Amounts, nextDueDate : anchors, frequency : StoredFrequency,
   isExistingRecurring : StoredFlags]
StoredConfigsOf(anchors) ==
  [payAmount : PayAmounts, lastPayday : {Some(d) : d \in anchors} \cup {Null},
   payFrequency : PayFrequency]

(***************************************************************************)
(* Persistence: the mount effect and the two save effects.                 *)
(***************************************************************************)

\* JSON.parse(storedBills).map(...): the flag of a recurring bill stored
\* without one is true.
ParseStoredBill(stored) ==
  [id |-> stored.id, amount |-> stored.amount,
   nextDueDate |-> stored.nextDueDate, frequency |-> stored.frequency,
   isExistingRecurring |->
     IF stored.frequency # "one-time" /\ stored.isExistingRecurring = Null
     THEN TRUE
     ELSE stored.isExistingRecurring # Null /\ stored.isExistingRecurring[1]]

ParseStoredBills(stored) == [i \in 1..Len(stored) |-> ParseStoredBill(stored[i])]

\* A stored schedule without lastPayday gets new Date().
ParseStoredConfig(stored, todayDate) ==
  IF stored = Null THEN Null
  ELSE Some([payAmount |-> stored[1].payAmount,
             lastPayday |-> IF stored[1].lastPayday = Null THEN todayDate
                            ELSE stored[1].lastPayday[1],
             payFrequency |-> stored[1].payFrequency])

\* localStorage.setItem('pocketWatchBills', JSON.stringify(bills))
StringifyBills(bs) ==
  [i \in 1..Len(bs) |-> [bs[i] EXCEPT !.isExistingRecurring = Some(bs[i].isExistingRecurring)]]

\* The schedule is written only when there is one.
StringifyConfig(config, before) ==
  IF config = Null THEN before
  ELSE Some([config[1] EXCEPT !.lastPayday = Some(config[1].lastPayday)])

\* The effects that follow a render in which bills or payPeriodConfig changed.
AfterRender(todayDate) ==
  /\ storedBills' = StringifyBills(bills')
  /\ storedConfig' = StringifyConfig(payPeriodConfig', storedConfig)
  /\ \E r \in {Recompute(bills', payPeriodConfig', todayDate)} :
        /\ leftoverMoney' = r.leftoverMoney
        /\ currentPayPeriodDates' = r.currentPayPeriodDates
        /\ monthlySummary' = r.monthlySummary
        /\ billsDueThisPayPeriod' = r.billsDueThisPayPeriod

\* The component as mounted, before anything is loaded.
Unmounted ==
  /\ isLoading = TRUE
  /\ bills = <<>>
  /\ payPeriodConfig = Null
  /\ leftoverMoney = Null
  /\ currentPayPeriodDates = Null
  /\ monthlySummary = Null
  /\ billsDueThisPayPeriod = <<>>
  /\ editingBill = Null
  /\ isBillFormDialogOpen = FALSE

FnIdle ==
  /\ fnPc = "idle"
  /\ fnBill = Null
  /\ fnToday = 0
  /\ fnOut = <<>>

\* The mount effect: the stored bills and schedule become the state.
Load ==
  /\ isLoading
  /\ isLoading' = FALSE
  /\ bills' = ParseStoredBills(storedBills)
  /\ payPeriodConfig' = ParseStoredConfig(storedConfig, today)
  /\ AfterRender(today)
  /\ UNCHANGED <<today, clock, editingBill, isBillFormDialogOpen, fnVars>>

\* A day passes and the page is opened again: the component is mounted
\* anew and loads what was stored.
NextDay(lastDay) ==
  /\ ~isLoading
  /\ today < lastDay
  /\ today' = today + 1
  /\ bills' = ParseStoredBills(storedBills)
  /\ payPeriodConfig' = ParseStoredConfig(storedConfig, today')
  /\ AfterRender(today')
  /\ editingBill' = Null
  /\ isBillFormDialogOpen' = FALSE
  /\ UNCHANGED <<clock, isLoading, fnVars>>

(***************************************************************************)
(* Handlers.                                                               *)
(***************************************************************************)

\* The form's calendar offers no day after today for the last payday.
handleSetPayPeriod(data) ==
  /\ ~isLoading
  /\ data.lastPayday # Null
  /\ data.lastPayday[1] <= today
  /\ payPeriodConfig' = Some([payAmount |-> data.payAmount,
                              lastPayday |-> startOfDay(data.lastPayday[1]),
                              payFrequency |-> data.payFrequency])
  /\ bills' = bills
  /\ AfterRender(today)
  /\ UNCHANGED <<today, clock, isLoading, editingBill, isBillFormDialogOpen, fnVars>>

\* The dialog is modal: the page behind it takes no clicks while it is open.
handleOpenAddBillDialog ==
  /\ ~isLoading
  /\ ~isBillFormDialogOpen
  /\ editingBill' = Null
  /\ isBillFormDialogOpen' = TRUE
  /\ UNCHANGED <<today, clock, storedBills, storedConfig, isLoading, bills,
                 payPeriodConfig, leftoverMoney, currentPayPeriodDates, monthlySummary,
                 billsDueThisPayPeriod, fnVars>>

handleOpenEditBillDialog(bill) ==
  /\ ~isLoading
  /\ ~isBillFormDialogOpen
  /\ editingBill' = Some(bill)
  /\ isBillFormDialogOpen' = TRUE
  /\ UNCHANGED <<today, clock, storedBills, storedConfig, isLoading, bills,
                 payPeriodConfig, leftoverMoney, currentPayPeriodDates, monthlySummary,
                 billsDueThisPayPeriod, fnVars>>

\* The Cancel button closes the dialog and leaves editingBill as it is.
CancelDialog ==
  /\ isBillFormDialogOpen
  /\ isBillFormDialogOpen' = FALSE
  /\ UNCHANGED <<today, clock, storedBills, storedConfig, isLoading, bills,
                 payPeriodConfig, leftoverMoney, currentPayPeriodDates, monthlySummary,
                 billsDueThisPayPeriod, editingBill, fnVars>>

\* The dialog's onOpenChange(false): closed by Escape or a click outside.
DismissDialog ==
  /\ isBillFormDialogOpen
  /\ isBillFormDialogOpen' = FALSE
  /\ editingBill' = Null
  /\ UNCHANGED <<today, clock, storedBills, storedConfig, isLoading, bills,
                 payPeriodConfig, leftoverMoney, currentPayPeriodDates, monthlySummary,
                 billsDueThisPayPeriod, fnVars>>

\* A faulty variant: the flag of the form is kept for a one-time bill too.
BillFromFormKeepingFlag(base, data) ==
  [base EXCEPT !.amount = data.amount,
               !.nextDueDate = startOfDay(data.nextDueDate[1]),
               !.frequency = data.frequency,
               !.isExistingRecurring = data.isExistingRecurring]

\* The bill saveBillData builds from the form, on top of base.
BillFromForm(base, data) ==
  [base EXCEPT !.amount = data.amount,
               !.nextDueDate = startOfDay(data.nextDueDate[1]),
               !.frequency = data.frequency,
               !.isExistingRecurring =
                  IF data.frequency = "one-time" THEN FALSE ELSE data.isExistingRecurring]

\* saveBillData(data), when it returns true: the new bills and clock.
saveBillData(data) ==
  /\ data.nextDueDate # Null
  /\ IF editingBill # Null
     THEN LET updatedBill == BillFromForm(editingBill[1], data)
          IN  /\ bills' = SortByActualDueDate(
                            [i \in 1..Len(bills) |->
                               IF bills[i].id = editingBill[1].id THEN updatedBill
                               ELSE bills[i]], today)
              /\ clock' = clock
     ELSE /\ Len(bills) < MaxBills
          /\ clock < MaxClock
          /\ clock' = clock + 1
          /\ LET newBill == BillFromForm([id |-> clock', amount |-> 0, nextDueDate |-> 0,
                                          frequency |-> "monthly",
                                          isExistingRecurring |-> FALSE], data)
             IN  bills' = SortByActualDueDate(Append(bills, newBill), today)

handleSaveAndCloseDialog(data) ==
  /\ isBillFormDialogOpen
  /\ saveBillData(data)
  /\ isBillFormDialogOpen' = FALSE
  /\ editingBill' = Null
  /\ payPeriodConfig' = payPeriodConfig
  /\ AfterRender(today)
  /\ UNCHANGED <<today, isLoading, fnVars>>

\* The button is shown only when no bill is being edited.
handleSaveAndAddAnother(data) ==
  /\ isBillFormDialogOpen
  /\ editingBill = Null
  /\ saveBillData(data)
  /\ payPeriodConfig' = payPeriodConfig
  /\ AfterRender(today)
  /\ UNCHANGED <<today, isLoading, editingBill, isBillFormDialogOpen, fnVars>>

\* A faulty variant: the bills that follow the one with the id go with it.
RECURSIVE FilterOutIdAndRest(_, _)
FilterOutIdAndRest(bs, id) ==
  IF bs = <<>> THEN <<>>
  ELSE IF Head(bs).id # id THEN <<Head(bs)>> \o FilterOutIdAndRest(Tail(bs), id)
  ELSE <<>>

RECURSIVE FilterOutId(_, _)
FilterOutId(bs, id) ==
  IF bs = <<>> THEN <<>>
  ELSE IF Head(bs).id # id THEN <<Head(bs)>> \o FilterOutId(Tail(bs), id)
  ELSE FilterOutId(Tail(bs), id)

handleDeleteBill(id) ==
  /\ ~isLoading
  /\ ~isBillFormDialogOpen
  /\ bills' = FilterOutId(bills, id)
  /\ payPeriodConfig' = payPeriodConfig
  /\ AfterRender(today)
  /\ UNCHANGED <<today, clock, isLoading, editingBill, isBillFormDialogOpen, fnVars>>

(***************************************************************************)
(* Spec: the component from a first visit on, driven by its handlers.      *)
(***************************************************************************)

Init ==
  /\ today = SpecDay
  /\ clock = 0
  /\ storedBills = <<>>
  /\ storedConfig = Null
  /\ Unmounted
  /\ FnIdle

Next ==
  \/ Load
  \/ NextDay(SpecDay + MaxDaysElapsed)
  \/ \E data \in PayForms : handleSetPayPeriod(data)
  \/ handleOpenAddBillDialog
  \/ \E i \in 1..Len(bills) : handleOpenEditBillDialog(bills[i])
  \/ CancelDialog
  \/ DismissDialog
  \/ \E data \in BillForms : handleSaveAndCloseDialog(data)
  \/ \E data \in BillForms : handleSaveAndAddAnother(data)
  \/ \E i \in 1..Len(bills) : handleDeleteBill(bills[i].id)

Spec == Init /\ [][Next]_vars

(***************************************************************************)
(* SpecLoaded: the component opened on any of the days, over any stored    *)
(* schedule and at most one stored bill.  A stored last payday was on or   *)
(* before the day it was entered, so it is not after today; a schedule     *)
(* stored without one comes with no stored bill.                           *)
(***************************************************************************)

InitLoaded ==
  /\ today \in LoadedDays
  /\ clock = 0
  /\ storedBills \in {<<>>} \cup {<<b>> : b \in StoredBillsOf(BillAnchors)}
  /\ storedConfig \in {Null} \cup {Some(c) : c \in StoredConfigsOf(PayAnchors)}
  /\ (storedConfig # Null /\ storedConfig[1].lastPayday # Null)
       => storedConfig[1].lastPayday[1] <= today
  /\ (storedConfig # Null /\ storedConfig[1].lastPayday = Null) => storedBills = <<>>
  /\ Unmounted
  /\ FnIdle

NextLoaded ==
  \/ Load
  \/ /\ today + 1 \in LoadedDays
     /\ NextDay(today + 1)

SpecLoaded == InitLoaded /\ [][NextLoaded]_vars

(***************************************************************************)
(* SpecFn: the resolver and the advancer, called on any bill and any       *)
(* reference day.                                                          *)
(***************************************************************************)

FnBills ==
  [id : {1}, amount : Amounts, nextDueDate : FnDays, frequency : BillFrequency,
   isExistingRecurring : BOOLEAN]

InitFn ==
  /\ today = SpecDay
  /\ clock = 0
  /\ storedBills = <<>>
  /\ storedConfig = Null
  /\ Unmounted
  /\ fnPc = "start"
  /\ fnBill \in {Some(b) : b \in FnBills}
  /\ fnToday \in FnDays
  /\ fnOut = <<>>

\* getActualNextDueDate(bill, today)
CallResolve ==
  /\ fnPc = "start"
  /\ fnPc' = "resolved"
  /\ fnOut' = <<getActualNextDueDate(fnBill[1], fnToday)>>
  /\ UNCHANGED <<appVars, fnBill, fnToday>>

\* getActualNextDueDate of the same bill anchored on the date just returned
CallResolveAgain ==
  /\ fnPc = "resolved"
  /\ fnPc' = "resolved again"
  /\ fnOut' = Append(fnOut, getActualNextDueDate(
                              [fnBill[1] EXCEPT !.nextDueDate = fnOut[1]], fnToday))
  /\ UNCHANGED <<appVars, fnBill, fnToday>>

\* next(previous(d)) and previous(next(d)) of the bill's anchor
CallRoundTrip ==
  /\ fnPc = "start"
  /\ fnPc' = "round trip"
  /\ LET d == fnBill[1].nextDueDate
         f == fnBill[1].frequency
     IN  fnOut' = <<calculateNextOccurrence(calculatePreviousOccurrence(d, f), f),
                    calculatePreviousOccurrence(calculateNextOccurrence(d, f), f)>>
  /\ UNCHANGED <<appVars, fnBill, fnToday>>

\* The alignment of the recompute effect, with the reference day for the
\* window start, next to the resolver's date.  One-time bills are not aligned.
CallAlign ==
  /\ fnPc = "start"
  /\ fnBill[1].frequency # "one-time"
  /\ fnPc' = "aligned"
  /\ fnOut' = <<AlignToWindow(fnBill[1], fnToday), getActualNextDueDate(fnBill[1], fnToday)>>
  /\ UNCHANGED <<appVars, fnBill, fnToday>>

\* The monthly income of the recompute effect, for the pay schedule that has
\* the bill's anchor, frequency and amount, in the month of the reference day.
CallMonthlyIncome ==
  /\ fnPc = "start"
  /\ fnBill[1].frequency \in PayFrequency
  /\ fnPc' = "income"
  /\ fnOut' = <<MonthlyIncome([payAmount |-> fnBill[1].amount,
                                lastPayday |-> fnBill[1].nextDueDate,
                                payFrequency |-> fnBill[1].frequency],
                               startOfDay(startOfMonth(startOfDay(fnToday))),
                               startOfDay(endOfMonth(startOfDay(fnToday))))>>
  /\ UNCHANGED <<appVars, fnBill, fnToday>>

NextFn == CallResolve \/ CallResolveAgain \/ CallRoundTrip \/ CallAlign \/ CallMonthlyIncome

SpecFn == InitFn /\ [][NextFn]_vars

(***************************************************************************)
(* Properties.                                                             *)
(***************************************************************************)

\* The derived values are those of a loaded component with a pay schedule.
Computed == ~isLoading /\ payPeriodConfig # Null /\ currentPayPeriodDates # Null
Schedule == payPeriodConfig[1]
Period == currentPayPeriodDates[1]

\* Date.getDay(): 0 is Sunday; 1970-01-01 was a Thursday.
getDay(z) == (z + 4) % 7
DaysInMonth(y, m) == getDate(NewDate(y, m + 1, 0))
SameMonth(a, b) == getFullYear(a) = getFullYear(b) /\ getMonth(a) = getMonth(b)

\* C1: whenever the schedule's anchor is on or before today, the computed pay
\* period contains today: periodStart <= today < periodEnd, also on a payday.
C1_PeriodContainsToday ==
  (Computed /\ Schedule.lastPayday <= today)
    => (Period.start <= today /\ today < Period.end)

\* C2: every entry of the due-bill list is dated inside the half-open pay
\* period: periodStart <= date < periodEnd, never on periodEnd.
C2_DueDatesInsidePeriod ==
  Computed =>
    \A i \in 1..Len(billsDueThisPayPeriod) :
      /\ Period.start <= billsDueThisPayPeriod[i].nextDueDate
      /\ billsDueThisPayPeriod[i].nextDueDate < Period.end

\* A recurring bill with an occurrence on the period start and the next one
\* on the period end: only the first is listed.
C2_Witness ==
  /\ Computed
  /\ Len(bills) = 1
  /\ bills[1].frequency # "one-time"
  /\ Len(billsDueThisPayPeriod) = 1
  /\ billsDueThisPayPeriod[1].nextDueDate = Period.start
  /\ calculateNextOccurrence(Period.start, bills[1].frequency) = Period.end

FnFrequency == fnBill[1].frequency
FnAnchor == fnBill[1].nextDueDate

\* C3: the date getActualNextDueDate returns for a recurring bill is never
\* before the reference date.
C3_ResolvedNotBeforeToday ==
  (fnPc = "resolved" /\ FnFrequency # "one-time") => fnOut[1] >= fnToday

\* C4: for every date and every recurring frequency, next(previous(d)) = d
\* and previous(next(d)) = d.
C4_InverseLaws ==
  (fnPc = "round trip" /\ FnFrequency # "one-time") => fnOut = <<FnAnchor, FnAnchor>>

\* C4, amended: the two laws hold for the weekly frequencies; for monthly,
\* next(previous(d)) = d exactly when d's day of the month is no more than
\* the length of the month before, and previous(next(d)) = d exactly when it
\* is no more than the length of the month after.
C4_InverseLawsUnlessClamped ==
  (fnPc = "round trip" /\ FnFrequency # "one-time") =>
    IF FnFrequency = "monthly"
    THEN /\ (fnOut[1] = FnAnchor) <=>
              (getDate(FnAnchor)
                 <= DaysInMonth(getFullYear(FnAnchor), getMonth(FnAnchor) - 1))
         /\ (fnOut[2] = FnAnchor) <=>
              (getDate(FnAnchor)
                 <= DaysInMonth(getFullYear(FnAnchor), getMonth(FnAnchor) + 1))
    ELSE fnOut = <<FnAnchor, FnAnchor>>

\* 2024-03-31, monthly: back to 02-29 and on to 03-29; on to 04-30 and back
\* to 03-30.
C4_Witness ==
  /\ fnPc = "round trip"
  /\ FnFrequency = "monthly"
  /\ FnAnchor = Ymd(2024, 3, 31)
  /\ fnOut = <<Ymd(2024, 3, 29), Ymd(2024, 3, 30)>>

\* C5: resolving a bill, and then the bill anchored on the date returned,
\* with the same frequency, flag and reference date, gives the same date.
C5_ResolveIdempotent ==
  fnPc = "resolved again" => fnOut[2] = fnOut[1]

\* C6: monthly, anchored 2024-01-31, existing recurring, reference date
\* 2024-03-15: the resolver returns 2024-02-29 or 2024-03-31.
C6_EndOfMonthScenario ==
  (/\ fnPc = "resolved"
   /\ FnFrequency = "monthly"
   /\ FnAnchor = Ymd(2024, 1, 31)
   /\ fnBill[1].isExistingRecurring
   /\ fnToday = Ymd(2024, 3, 15))
    => fnOut[1] \in {Ymd(2024, 2, 29), Ymd(2024, 3, 31)}

\* C7: for a recurring bill that is not an existing one, the resolver returns
\* the anchor itself when the reference date is on or before it, and never a
\* date before the anchor.
C7_NewBillNotBeforeAnchor ==
  (fnPc = "resolved" /\ FnFrequency # "one-time" /\ ~fnBill[1].isExistingRecurring)
    => /\ fnOut[1] >= FnAnchor
       /\ fnToday <= FnAnchor => fnOut[1] = FnAnchor

\* A new weekly bill anchored two weeks or more after the reference date.
C7_Witness ==
  /\ fnPc = "resolved"
  /\ FnFrequency = "weekly"
  /\ ~fnBill[1].isExistingRecurring
  /\ fnToday + 14 <= FnAnchor
  /\ fnOut[1] = FnAnchor

\* C8: for a monthly schedule the period starts on the anchor's day of the
\* month (or on the last day of a month shorter than that), in today's month
\* or the one before, and ends one calendar month later.
C8_MonthlyStartOnAnchorDay ==
  (Computed /\ Schedule.payFrequency = "monthly") =>
    /\ \/ getDate(Period.start) = getDate(Schedule.lastPayday)
       \/ /\ Period.start = endOfMonth(Period.start)
          /\ getDate(Period.start) < getDate(Schedule.lastPayday)
    /\ \/ SameMonth(Period.start, today)
       \/ SameMonth(Period.start, subMonths(startOfMonth(today), 1))
    /\ Period.end = addMonths(Period.start, 1)

\* C9: for a weekly or bi-weekly schedule anchored on or before today the
\* period is 7 or 14 days long and starts a whole number of periods after the
\* anchor; bi-weekly from 2024-01-05 on 2024-02-01 it starts on a Friday and
\* contains 2024-02-01.
C9_WeeklyPeriodAligned ==
  (Computed /\ Schedule.payFrequency # "monthly" /\ Schedule.lastPayday <= today) =>
    LET days == IF Schedule.payFrequency = "weekly" THEN 7 ELSE 14
    IN  /\ Period.end - Period.start = days
        /\ Period.start >= Schedule.lastPayday
        /\ (Period.start - Schedule.lastPayday) % days = 0
        /\ getDay(Period.start) = getDay(Schedule.lastPayday)
        /\ (/\ Schedule.payFrequency = "bi-weekly"
            /\ Schedule.lastPayday = Ymd(2024, 1, 5)
            /\ today = Ymd(2024, 2, 1))
             => /\ getDay(Period.start) = 5
                /\ Period.start <= today
                /\ today < Period.end

C9_Witness ==
  /\ Computed
  /\ Schedule.payFrequency = "bi-weekly"
  /\ Schedule.lastPayday = Ymd(2024, 1, 5)
  /\ today = Ymd(2024, 2, 1)
  /\ Period = [start |-> Ymd(2024, 1, 19), end |-> Ymd(2024, 2, 2)]

\* C10: a one-time bill is listed once, on its own date, when that date is
\* inside the pay period, and not at all otherwise, and the period total has
\* its amount as often; the monthly bill total has its amount once when the
\* date is in today's calendar month and not otherwise.
C10_OneTimeCountedOnce ==
  (Computed /\ Len(bills) = 1 /\ bills[1].frequency = "one-time") =>
    LET bill == bills[1]
        inPeriod == Period.start <= bill.nextDueDate /\ bill.nextDueDate < Period.end
        inMonth == SameMonth(bill.nextDueDate, today)
    IN  /\ billsDueThisPayPeriod = IF inPeriod THEN <<bill>> ELSE <<>>
        /\ leftoverMoney = Some(Schedule.payAmount - (IF inPeriod THEN bill.amount ELSE 0))
        /\ monthlySummary[1].bills = IF inMonth THEN bill.amount ELSE 0

\* 50 due once on 2024-06-10, in the pay period [2024-06-01, 2024-07-01).
C10_Witness ==
  /\ Computed
  /\ Period = [start |-> Ymd(2024, 6, 1), end |-> Ymd(2024, 7, 1)]
  /\ Len(bills) = 1
  /\ bills[1].frequency = "one-time"
  /\ bills[1].nextDueDate = Ymd(2024, 6, 10)
  /\ bills[1].amount = 50
  /\ Len(billsDueThisPayPeriod) = 1
  /\ leftoverMoney = Some(Schedule.payAmount - 50)
  /\ monthlySummary[1].bills = 50

\* The weekly frequencies and the days between two occurrences.
WeeklyFrequency == {"weekly", "bi-weekly", "tri-weekly"}
PeriodDays(frequency) ==
  CASE frequency = "weekly" -> 7
    [] frequency = "bi-weekly" -> 14
    [] frequency = "tri-weekly" -> 21

\* The dates A + k*p within lo .. hi, for k >= 0 and for any integer k.
OccurrencesFrom(A, p, lo, hi) == {d \in lo..hi : d >= A /\ (d - A) % p = 0}
OccurrencesAround(A, p, lo, hi) == {d \in lo..hi : (d - A) % p = 0}

MonthStart == startOfMonth(today)
MonthEnd == endOfMonth(today)

\* C11: a weekly, bi-weekly or tri-weekly bill that is not an existing one adds
\* to the monthly bill total its amount times the number of dates A + k*p,
\* k >= 0, from the first to the last day of today's month; weekly from
\* 2024-01-01, in June 2024, that is 4 times the amount.
C11_NewWeeklyBillInMonth ==
  (/\ Computed
   /\ Len(bills) = 1
   /\ bills[1].frequency \in WeeklyFrequency
   /\ ~bills[1].isExistingRecurring) =>
    /\ monthlySummary[1].bills =
         bills[1].amount
           * Cardinality(OccurrencesFrom(bills[1].nextDueDate,
                                         PeriodDays(bills[1].frequency),
                                         MonthStart, MonthEnd))
    /\ (/\ bills[1].frequency = "weekly"
        /\ bills[1].nextDueDate = Ymd(2024, 1, 1)
        /\ today = Ymd(2024, 6, 15))
         => monthlySummary[1].bills = 4 * bills[1].amount

\* Weekly from 2024-01-01, on 2024-06-15: the Mondays 3, 10, 17 and 24 June.
C11_Witness ==
  /\ Computed
  /\ Len(bills) = 1
  /\ bills[1].frequency = "weekly"
  /\ ~bills[1].isExistingRecurring
  /\ bills[1].nextDueDate = Ymd(2024, 1, 1)
  /\ today = Ymd(2024, 6, 15)
  /\ monthlySummary[1].bills = 4 * bills[1].amount

\* C12: as long as no pay schedule is set, whatever bills were added, edited
\* and deleted, the leftover money, the pay period and the monthly summary
\* are absent and the due-bill list is empty.
C12_NoScheduleNothingDerived ==
  (~isLoading /\ payPeriodConfig = Null) =>
    /\ leftoverMoney = Null
    /\ currentPayPeriodDates = Null
    /\ monthlySummary = Null
    /\ billsDueThisPayPeriod = <<>>

\* No schedule; two bills were added and the first of them deleted.
C12_Witness ==
  /\ ~isLoading
  /\ payPeriodConfig = Null
  /\ Len(bills) = 1
  /\ bills[1].id = 2
  /\ leftoverMoney = Null
  /\ billsDueThisPayPeriod = <<>>

\* C13: for a bill whose frequency is not a recognised one the advancer
\* returns the date it was given, in both directions; the resolver returns
\* the anchor; the bill is listed once when its anchor is in the pay period
\* and not at all otherwise, and is counted once in the monthly bill total
\* when its anchor is in today's month and not at all otherwise.
C13_UnknownFrequencyIsInert ==
  (Computed /\ Len(bills) = 1 /\ bills[1].frequency \notin BillFrequency) =>
    LET bill == bills[1]
        inPeriod == Period.start <= bill.nextDueDate /\ bill.nextDueDate < Period.end
        inMonth == SameMonth(bill.nextDueDate, today)
    IN  /\ calculateNextOccurrence(bill.nextDueDate, bill.frequency) = bill.nextDueDate
        /\ calculatePreviousOccurrence(bill.nextDueDate, bill.frequency) = bill.nextDueDate
        /\ getActualNextDueDate(bill, today) = bill.nextDueDate
        /\ billsDueThisPayPeriod = IF inPeriod THEN <<bill>> ELSE <<>>
        /\ leftoverMoney = Some(Schedule.payAmount - (IF inPeriod THEN bill.amount ELSE 0))
        /\ monthlySummary[1].bills = IF inMonth THEN bill.amount ELSE 0

\* An existing bill of an unknown frequency, anchored in the pay period and
\* in today's month after today: listed once, counted once.
C13_Witness ==
  /\ Computed
  /\ Len(bills) = 1
  /\ bills[1].frequency \notin BillFrequency
  /\ bills[1].isExistingRecurring
  /\ bills[1].nextDueDate > today
  /\ Len(billsDueThisPayPeriod) = 1
  /\ monthlySummary[1].bills = bills[1].amount

\* The place of the bill with this id in bills.
IndexOfId(id) == CHOOSE k \in 1..Len(bills) : bills[k].id = id

\* C14: the due-bill list is in ascending order of date, and entries of the
\* same date are in the order of their bills in the collection.
C14_DueListSortedStable ==
  Computed =>
    \A i, j \in 1..Len(billsDueThisPayPeriod) :
      i < j =>
        /\ billsDueThisPayPeriod[i].nextDueDate <= billsDueThisPayPeriod[j].nextDueDate
        /\ billsDueThisPayPeriod[i].nextDueDate = billsDueThisPayPeriod[j].nextDueDate
             => IndexOfId(billsDueThisPayPeriod[i].id)
                  < IndexOfId(billsDueThisPayPeriod[j].id)

\* The second bill has an occurrence before the only one of the first, and
\* another on the same day: the sort moves the early one to the front and
\* leaves the first bill before the second on the shared day.
C14_Witness ==
  /\ Computed
  /\ Len(bills) = 2
  /\ Len(billsDueThisPayPeriod) = 3
  /\ billsDueThisPayPeriod[1].id = bills[2].id
  /\ billsDueThisPayPeriod[2].id = bills[1].id
  /\ billsDueThisPayPeriod[3].id = bills[2].id
  /\ billsDueThisPayPeriod[1].nextDueDate < billsDueThisPayPeriod[2].nextDueDate
  /\ billsDueThisPayPeriod[2].nextDueDate = billsDueThisPayPeriod[3].nextDueDate

DueDates == [i \in 1..Len(billsDueThisPayPeriod) |-> billsDueThisPayPeriod[i].nextDueDate]

\* C15: for an existing weekly, bi-weekly or tri-weekly bill with anchor A,
\* before, inside or after the pay period, the due-bill list holds exactly
\* the dates A + k*p, k any integer, of [periodStart, periodEnd), each once,
\* and the period total has the amount once per such date.
C15_ExistingWeeklyBillInPeriod ==
  (/\ Computed
   /\ Len(bills) = 1
   /\ bills[1].frequency \in WeeklyFrequency
   /\ bills[1].isExistingRecurring) =>
    LET expected == OccurrencesAround(bills[1].nextDueDate, PeriodDays(bills[1].frequency),
                                      Period.start, Period.end - 1)
    IN  /\ Len(DueDates) = Cardinality(expected)
        /\ {DueDates[i] : i \in 1..Len(DueDates)} = expected
        /\ \A i \in 1..Len(DueDates) :
              billsDueThisPayPeriod[i] = [bills[1] EXCEPT !.nextDueDate = DueDates[i]]
        /\ leftoverMoney = Some(Schedule.payAmount - bills[1].amount * Cardinality(expected))

\* An existing weekly bill anchored after the end of the pay period, with
\* four occurrences or more in it.
C15_Witness ==
  /\ Computed
  /\ Len(bills) = 1
  /\ bills[1].frequency = "weekly"
  /\ bills[1].isExistingRecurring
  /\ bills[1].nextDueDate >= Period.end
  /\ Len(billsDueThisPayPeriod) >= 4
  /\ leftoverMoney = Some(Schedule.payAmount - bills[1].amount * Len(billsDueThisPayPeriod))

\* C16: for every recurring bill and every window start, the date from which
\* the aggregation starts its sweep is the date getActualNextDueDate returns
\* for that bill with the window start for reference date.
C16_AlignmentIsResolver ==
  (fnPc = "aligned" /\ FnFrequency \in RecurringFrequency) => fnOut[1] = fnOut[2]

\* C17: for a weekly or bi-weekly pay schedule with any anchor, before,
\* inside or after the month, the monthly income is the pay amount times the
\* number of dates anchor + k*period, k any integer, from the first to the
\* last day of the month.
C17_WeeklyIncomeOfMonth ==
  (fnPc = "income" /\ FnFrequency \in {"weekly", "bi-weekly"}) =>
    fnOut[1] = fnBill[1].amount
                 * Cardinality(OccurrencesAround(FnAnchor, PeriodDays(FnFrequency),
                                                 startOfMonth(fnToday), endOfMonth(fnToday)))

\* A bi-weekly schedule anchored after the end of the month, with three
\* paydays in the month.
C17_Witness ==
  /\ fnPc = "income"
  /\ FnFrequency = "bi-weekly"
  /\ FnAnchor > endOfMonth(fnToday)
  /\ fnOut[1] = 3 * fnBill[1].amount

\* C18: for a monthly pay schedule, for every anchor and every month, one
\* payday falls in the month: the monthly income is the pay amount.
C18_MonthlyIncomeIsPayAmount ==
  (fnPc = "income" /\ FnFrequency = "monthly") => fnOut[1] = fnBill[1].amount

\* The dates the loops of the recomputation and of the resolver start from
\* or pass through in this state.
LoopDates ==
  {MonthStart, Schedule.lastPayday, Period.start, Period.end}
    \cup {bills[i].nextDueDate : i \in 1..Len(bills)}

\* C19: with recognised frequencies every loop of the recomputation and of
\* getActualNextDueDate comes to its end and leaves a value: each step of the
\* advancer, of the pay period and of the day-of-month search moves the date
\* strictly, forward or backward as the loop needs; the intervals tested
\* with isWithinInterval do not end before they start; and the recomputation
\* sets the pay period, the leftover money and the monthly summary.
C19_EveryLoopAdvances ==
  (Computed /\ \A i \in 1..Len(bills) : bills[i].frequency \in BillFrequency) =>
    /\ leftoverMoney # Null /\ leftoverMoney[1] \in Int
    /\ monthlySummary # Null
    /\ monthlySummary[1].income \in Nat /\ monthlySummary[1].bills \in Nat
    /\ Period.start <= PeriodLastDay(Period.end)
    /\ MonthStart <= MonthEnd
    /\ \A i \in 1..Len(bills) : getActualNextDueDate(bills[i], today) \in Int
    /\ \A d \in LoopDates :
          /\ \A f \in RecurringFrequency :
                /\ calculateNextOccurrence(d, f) > d
                /\ calculatePreviousOccurrence(d, f) < d
          /\ PayPeriodStep(d, Schedule.payFrequency) > d
          /\ NewDate(getFullYear(addMonths(d, 1)), getMonth(addMonths(d, 1)),
                     getDate(Schedule.lastPayday)) > d

\* A monthly schedule anchored on a 31st, and an existing monthly bill
\* anchored on a 31st after today.
C19_Witness ==
  /\ Computed
  /\ Schedule.payFrequency = "monthly"
  /\ getDate(Schedule.lastPayday) = 31
  /\ Len(bills) = 1
  /\ bills[1].frequency = "monthly"
  /\ bills[1].isExistingRecurring
  /\ getDate(bills[1].nextDueDate) = 31
  /\ bills[1].nextDueDate > today
  /\ leftoverMoney # Null
  /\ monthlySummary # Null

\* C20: with the pay schedule unchanged, when today advances by a day the
\* pay period stays as it is or is replaced by the one that starts on the
\* day the former ended.
C20_PeriodsTile ==
  [][(/\ Computed
      /\ Computed'
      /\ payPeriodConfig' = payPeriodConfig
      /\ Schedule.lastPayday <= today
      /\ today' = today + 1)
       => \/ currentPayPeriodDates' = currentPayPeriodDates
          \/ currentPayPeriodDates'[1].start = Period.end]_vars

\* A due-bill list without the flags of its entries.
WithoutFlags(bs) ==
  [i \in 1..Len(bs) |-> [id |-> bs[i].id, amount |-> bs[i].amount,
                          nextDueDate |-> bs[i].nextDueDate, frequency |-> bs[i].frequency]]

\* C21: every one-time bill of the collection has its flag false, whatever
\* the forms that added and edited it said; and with its flag true instead,
\* the resolver's date, the due-bill list, the leftover money, the pay period
\* and the monthly summary would all be what they are.
C21_OneTimeIgnoresFlag ==
  ~isLoading =>
    \A i \in 1..Len(bills) :
      bills[i].frequency = "one-time" =>
        /\ ~bills[i].isExistingRecurring
        /\ getActualNextDueDate([bills[i] EXCEPT !.isExistingRecurring = TRUE], today)
             = getActualNextDueDate(bills[i], today)
        /\ \E r \in {Recompute([bills EXCEPT ![i].isExistingRecurring = TRUE],
                                payPeriodConfig, today)} :
              /\ r.leftoverMoney = leftoverMoney
              /\ r.currentPayPeriodDates = currentPayPeriodDates
              /\ r.monthlySummary = monthlySummary
              /\ WithoutFlags(r.billsDueThisPayPeriod) = WithoutFlags(billsDueThisPayPeriod)

\* The one-time bill of 50 due 2024-01-26, which the form submits with the
\* flag set, is in the collection with the flag false, and is listed as due.
C21_Witness ==
  /\ Computed
  /\ \E i \in 1..Len(bills) :
        /\ bills[i].frequency = "one-time"
        /\ bills[i].amount = 50
        /\ bills[i].nextDueDate = Ymd(2024, 1, 26)
        /\ ~bills[i].isExistingRecurring
        /\ \E j \in 1..Len(billsDueThisPayPeriod) :
              billsDueThisPayPeriod[j] = bills[i]

BillSet(bs) == {bs[i] : i \in 1..Len(bs)}
IdsOf(bs) == {bs[i].id : i \in 1..Len(bs)}
RemoveAt(bs, i) == SubSeq(bs, 1, i - 1) \o SubSeq(bs, i + 1, Len(bs))

\* A step that saves the bill being edited (or dismisses its dialog), and a
\* step that deletes.
EditStep ==
  /\ isBillFormDialogOpen /\ editingBill # Null
  /\ ~isBillFormDialogOpen' /\ editingBill' = Null
  /\ today' = today
DeleteStep ==
  /\ ~isLoading /\ ~isBillFormDialogOpen
  /\ today' = today
  /\ bills' # bills

\* C22: the ids of the bills are distinct; saving an edit keeps the number of
\* bills and their ids, and leaves every bill but the one with the edited
\* bill's id as it was; deleting by id removes one bill, the one with that id,
\* and leaves the others as they were and in their order.
C22_EditAndDeleteFrame ==
  [][/\ \A i, j \in 1..Len(bills) : bills[i].id = bills[j].id => i = j
     /\ EditStep =>
          /\ Len(bills') = Len(bills)
          /\ IdsOf(bills') = IdsOf(bills)
          /\ editingBill[1].id \in IdsOf(bills)
          /\ {b \in BillSet(bills') : b.id # editingBill[1].id}
               = {b \in BillSet(bills) : b.id # editingBill[1].id}
     /\ DeleteStep =>
          \E i \in 1..Len(bills) :
            /\ bills' = RemoveAt(bills, i)
            /\ bills[i].id \notin IdsOf(bills')]_vars

\* Three bills were created and the second of them deleted: the first and
\* the third are left.
C22_Witness ==
  /\ ~isLoading
  /\ clock = 3
  /\ Len(bills) = 2
  /\ IdsOf(bills) = {1, 3}

====
